---- MODULE Spec2Model ----
(***************************************************************************)
(* hcp-to-wiki (cmd/hcp-to-wiki/main.go): a CSV of home computer adverts   *)
(* is parsed into advertInfo records, aggregated into one price series per *)
(* system and rendered as wiki tables of five years each.                  *)
(*                                                                         *)
(* A text is a sequence of characters (one-character strings), so that the *)
(* parsers slice, compare and convert texts the way the Go code does.  A   *)
(* Go slice is a sequence: element k (0-based) is at position k + 1.       *)
(***************************************************************************)
EXTENDS Integers, Sequences, FiniteSets, TLC

VARIABLES data, pc, i, searching_for_header, adverts, minDate, maxDate,
          systems, keys, output, panicIn, probe, answer

vars == <<data, pc, i, searching_for_header, adverts, minDate, maxDate,
          systems, keys, output, panicIn, probe, answer>>

pipeVars == <<data, pc, i, searching_for_header, adverts, minDate, maxDate,
              systems, keys, output, panicIn>>

-----------------------------------------------------------------------------
(* Column offsets and limits, main.go lines 15-29.                         *)

adv_magazine == 0
adv_yyyy_mm == 1
adv_page_num == 2
adv_system == 3
adv_price == 4
adv_kit == 6
adv_board == 7

max_price == 100000
max_page_num == 500
min_year == 1945
max_year == 2099
groupYearsBy == 5

-----------------------------------------------------------------------------
(* Bounds of the model.                                                    *)

MaxRows == 3
MaxProbeYear == 2100

-----------------------------------------------------------------------------
(* Texts.                                                                  *)

Digit == {"0", "1", "2", "3", "4", "5", "6", "7", "8", "9"}

DigitValue(c) ==
    CASE c = "0" -> 0 [] c = "1" -> 1 [] c = "2" -> 2 [] c = "3" -> 3
      [] c = "4" -> 4 [] c = "5" -> 5 [] c = "6" -> 6 [] c = "7" -> 7
      [] c = "8" -> 8 [] c = "9" -> 9

RECURSIVE DigitsValue(_)
DigitsValue(s) ==
    IF s = <<>> THEN 0
    ELSE DigitsValue(SubSeq(s, 1, Len(s) - 1)) * 10 + DigitValue(s[Len(s)])

(* strconv.Atoi: an optional sign and at least one decimal digit; on a     *)
(* syntax error the value is 0.  The texts of the model are short, so the  *)
(* value always fits an int.                                               *)
Atoi(s) ==
    LET signed == Len(s) > 0 /\ s[1] \in {"+", "-"}
        body == IF signed THEN Tail(s) ELSE s
        ok == Len(body) > 0 /\ \A k \in 1..Len(body) : body[k] \in Digit
    IN  [ok |-> ok,
         val |-> IF ~ok THEN 0
                 ELSE IF signed /\ s[1] = "-" THEN 0 - DigitsValue(body)
                 ELSE DigitsValue(body)]

(* strings.SplitN(s, ".", 2)[0]: the text before the first "."             *)
RECURSIVE BeforeDot(_)
BeforeDot(s) ==
    IF s = <<>> \/ Head(s) = "." THEN <<>>
    ELSE <<Head(s)>> \o BeforeDot(Tail(s))

(* strings.ReplaceAll(s, ",", "")                                          *)
RECURSIVE RemoveCommas(_)
RemoveCommas(s) ==
    IF s = <<>> THEN <<>>
    ELSE IF Head(s) = "," THEN RemoveCommas(Tail(s))
    ELSE <<Head(s)>> \o RemoveCommas(Tail(s))

-----------------------------------------------------------------------------
(* Field parsers.  Each returns a record; err = "nil" is Go's nil error.   *)

(* yyyy_mm[4:5] panics (slice bounds out of range) on a text shorter than  *)
(* 5 bytes.  The texts of the model are ASCII, one byte per character.     *)
handle_yyyy_mm_panics(yyyy_mm) == Len(yyyy_mm) < 5

handle_yyyy_mm(yyyy_mm) ==
    LET date_sep == yyyy_mm[5]
        err1 == IF date_sep # "-" THEN "bad YYYY-MM separator"
                ELSE IF Len(yyyy_mm) # 7 THEN "bad YYYY-MM: length invalid"
                ELSE "nil"
        y == Atoi(SubSeq(yyyy_mm, 1, 4))
        err2 == IF ~y.ok THEN "bad Year digits"
                ELSE IF (y.val < min_year) \/ (y.val > max_year) THEN "bad Year"
                ELSE err1
        m == Atoi(SubSeq(yyyy_mm, 6, Len(yyyy_mm)))
        err3 == IF ~m.ok THEN "bad Month digits"
                ELSE IF (m.val < 1) \/ (m.val > 12) THEN "bad Month"
                ELSE err2
    IN  [year |-> y.val, month |-> m.val, err |-> err3]

handle_page_number(page_num_text) ==
    IF Len(page_num_text) < 2
    THEN [page |-> -1000, err |-> "bad page number text"]
    ELSE IF page_num_text[1] # "p"
    THEN [page |-> -1000, err |-> "bad page number format"]
    ELSE LET p == Atoi(Tail(page_num_text))
             err1 == IF ~p.ok THEN "bad page number data" ELSE "nil"
         IN  [page |-> p.val,
              err |-> IF (p.val < 0) \/ (p.val > max_page_num)
                      THEN "bad page number value" ELSE err1]

(* []rune(price_text)[0] panics (index out of range) on the empty text.    *)
handle_price_panics(price_text) == Len(price_text) = 0

handle_price(price_text) ==
    LET price_currency == price_text[1]
        price_value == RemoveCommas(BeforeDot(Tail(price_text)))
        possible_price == Atoi(price_value)
    IN  IF price_currency # "£"
        THEN [price |-> -1, err |-> "bad Price Currency"]
        ELSE IF ~possible_price.ok
        THEN [price |-> -1, err |-> "bad Price Data"]
        ELSE IF possible_price.val > max_price
        THEN [price |-> -1, err |-> "unlikely Price Data"]
        ELSE [price |-> possible_price.val, err |-> "nil"]

-----------------------------------------------------------------------------
(* Quarter index.                                                          *)

(* Go's integer division truncates toward zero.                            *)
GoDiv(a, b) == IF a >= 0 THEN a \div b ELSE 0 - ((0 - a) \div b)

buildIndexFromAdvertInfo(advert) ==
    LET quarter == GoDiv(advert.month - 1, 3)
    IN  (advert.year * 4) + quarter

buildIndexFromYearAndQuarter(year, quarter) == (year * 4) + (quarter - 1)

(* decodeIndexByQuarter with the quarter left 0-based.                     *)
decodeIndexByQuarter_zeroBased(idx) ==
    LET year == GoDiv(idx, 4)
    IN  [year |-> year, quarter |-> idx - (year * 4)]

decodeIndexByQuarter(idx) ==
    LET year == GoDiv(idx, 4)
    IN  [year |-> year, quarter |-> idx - (year * 4) + 1]

min(a, b) == IF a < b THEN a ELSE b

max(a, b) == IF a > b THEN a ELSE b

-----------------------------------------------------------------------------
Source == <<"S", "o", "u", "r", "c", "e">>

(* parseData: one iteration of its loop over the rows.  st holds the       *)
(* function's locals; panic names the parser that panicked, "" for none.   *)

(* parseData that does not wait for the header row.                        *)
parseInit_notSearching ==
    [searching_for_header |-> FALSE, adverts |-> <<>>,
     minDate |-> (max_year + 1) * 4, maxDate |-> -1, panic |-> ""]

parseInit ==
    [searching_for_header |-> TRUE, adverts |-> <<>>,
     minDate |-> (max_year + 1) * 4, maxDate |-> -1, panic |-> ""]

(* valid cleared by a bad page number too.                                 *)
rowValid_pageChecked(yyyy_mm_err, page_err, price_err) ==
    (yyyy_mm_err = "nil") /\ (page_err = "nil") /\ (price_err = "nil")

(* valid, lines 119-161: a bad page number does not clear it.              *)
rowValid(yyyy_mm_err, page_err, price_err) ==
    (yyyy_mm_err = "nil") /\ (price_err = "nil")

parseRow(st, row, csvRowIndex) ==
    IF st.searching_for_header
    THEN [st EXCEPT !.searching_for_header = (row[adv_magazine] # Source)]
    ELSE IF Len(row[adv_system]) = 0 THEN st
    ELSE IF handle_yyyy_mm_panics(row[adv_yyyy_mm])
    THEN [st EXCEPT !.panic = "handle_yyyy_mm"]
    ELSE IF handle_price_panics(row[adv_price])
    THEN [st EXCEPT !.panic = "handle_price"]
    ELSE LET ym == handle_yyyy_mm(row[adv_yyyy_mm])
             pg == handle_page_number(row[adv_page_num])
             pr == handle_price(row[adv_price])
             valid == rowValid(ym.err, pg.err, pr.err)
             advert == [row |-> csvRowIndex, magazine |-> row[adv_magazine],
                        year |-> ym.year, month |-> ym.month, page |-> pg.page,
                        system |-> row[adv_system], price |-> pr.price,
                        kit |-> row[adv_kit], board |-> row[adv_board]]
             dateIndex == buildIndexFromAdvertInfo(advert)
         IN  IF ~valid THEN st
             ELSE [st EXCEPT !.adverts = Append(st.adverts, advert),
                             !.minDate = min(dateIndex, st.minDate),
                             !.maxDate = max(dateIndex, st.maxDate)]

-----------------------------------------------------------------------------
(* buildBySystem.  The map is a function from system names to series; an   *)
(* index outside a series is Go's run-time panic.                          *)

emptyMap == [name \in {} |-> <<>>]

mapPut(m, name, value) ==
    [k \in (DOMAIN m) \cup {name} |-> IF k = name THEN value ELSE m[k]]

makeInts(n) == [k \in 1..n |-> 0]

inRange(pos, prices) == (pos >= 0) /\ (pos < Len(prices))

(* One iteration of the loop over the adverts, lines 405-417.              *)
buildBySystemStep(result, advert, minD, maxD) ==
    LET created == IF advert.system \in DOMAIN result.m THEN result.m
                   ELSE mapPut(result.m, advert.system, makeInts(maxD - minD + 1))
        idx == buildIndexFromAdvertInfo(advert)
        pos == idx - minD
        prices == created[advert.system]
    IN  IF result.panic \/ (maxD - minD + 1 < 0) \/ ~inRange(pos, prices)
        THEN [result EXCEPT !.panic = TRUE]
        ELSE LET storedPrice == prices[pos + 1]
             IN  IF (advert.price < storedPrice) \/ (storedPrice <= 0)
                 THEN [result EXCEPT !.m = mapPut(created, advert.system,
                                               [prices EXCEPT ![pos + 1] = advert.price])]
                 ELSE [result EXCEPT !.m = created]

RECURSIVE buildBySystemLoop(_, _, _, _)
buildBySystemLoop(result, rest, minD, maxD) ==
    IF rest = <<>> THEN result
    ELSE buildBySystemLoop(buildBySystemStep(result, Head(rest), minD, maxD),
                           Tail(rest), minD, maxD)

buildBySystem(advs, minD, maxD) ==
    buildBySystemLoop([m |-> emptyMap, panic |-> FALSE], advs, minD, maxD)

-----------------------------------------------------------------------------
(* preprocessSystemData.  Go iterates a map in an unspecified order; order *)
(* is the order of one execution of the range loop, lines 368-376.         *)

AppleII == <<"A", "p", "p", "l", "e", " ", "I", "I">>
ExidySorcerer == <<"E", "x", "i", "d", "y", " ", "S", "o", "r", "c", "e", "r", "e", "r">>
ScienceOfCambridgeMK14 ==
    <<"S", "c", "i", "e", "n", "c", "e", " ", "o", "f", " ",
      "C", "a", "m", "b", "r", "i", "d", "g", "e", " ", "M", "K", "1", "4">>
MK14 == <<"M", "K", "1", "4">>

preprocessStep(result, name, series) ==
    IF (name = AppleII) \/ (name = ExidySorcerer) THEN result
    ELSE IF name = ScienceOfCambridgeMK14 THEN mapPut(result, MK14, series)
    ELSE mapPut(result, name, series)

RECURSIVE preprocessLoop(_, _, _)
preprocessLoop(result, order, sys) ==
    IF order = <<>> THEN result
    ELSE preprocessLoop(preprocessStep(result, Head(order), sys[Head(order)]),
                        Tail(order), sys)

preprocessSystemData(sys, order) == preprocessLoop(emptyMap, order, sys)

(* The orders in which the keys of a map can be iterated.                  *)
RECURSIVE IterationOrders(_)
IterationOrders(S) ==
    IF S = {} THEN {<<>>}
    ELSE UNION {{<<x>> \o o : o \in IterationOrders(S \ {x})} : x \in S}

-----------------------------------------------------------------------------
(* sort.Strings: ascending byte order.  Alphabet lists the characters of   *)
(* the system names in ASCII order.                                        *)

Alphabet ==
    <<" ", "0", "1", "2", "3", "4", "5", "6", "7", "8", "9",
      "A", "B", "C", "D", "E", "F", "G", "H", "I", "J", "K", "L", "M",
      "N", "O", "P", "Q", "R", "S", "T", "U", "V", "W", "X", "Y", "Z",
      "a", "b", "c", "d", "e", "f", "g", "h", "i", "j", "k", "l", "m",
      "n", "o", "p", "q", "r", "s", "t", "u", "v", "w", "x", "y", "z">>

ByteRank(c) == CHOOSE k \in 1..Len(Alphabet) : Alphabet[k] = c

RECURSIVE StringLess(_, _)
StringLess(s, t) ==
    IF t = <<>> THEN FALSE
    ELSE IF s = <<>> THEN TRUE
    ELSE IF Head(s) # Head(t) THEN ByteRank(Head(s)) < ByteRank(Head(t))
    ELSE StringLess(Tail(s), Tail(t))

RECURSIVE sortStrings(_)
sortStrings(S) ==
    IF S = {} THEN <<>>
    ELSE LET least == CHOOSE x \in S : \A y \in S \ {x} : StringLess(x, y)
         IN  <<least>> \o sortStrings(S \ {least})

-----------------------------------------------------------------------------
(* Table renderer.                                                         *)

(* The loop of systemHasPriceData, lines 430-435: "true", "false", or      *)
(* "panic" when a position lies outside the series.                        *)
RECURSIVE scanPrices(_, _, _, _)
scanPrices(idx, highestValidIndex, minD, prices) ==
    IF idx > highestValidIndex THEN "false"
    ELSE IF ~inRange(idx - minD, prices) THEN "panic"
    ELSE IF prices[idx - minD + 1] > 0 THEN "true"
    ELSE scanPrices(idx + 1, highestValidIndex, minD, prices)

(* systemHasPriceData that does not clamp the block's last index to        *)
(* maxDate.                                                                *)
systemHasPriceData_unclamped(startYear, endYear, minD, maxD, prices) ==
    LET lowestIndex == buildIndexFromYearAndQuarter(startYear, 1)
        lowestValidIndex == max(lowestIndex, minD)
        highestIndex == buildIndexFromYearAndQuarter(endYear, 1)
    IN  scanPrices(lowestValidIndex, highestIndex, minD, prices)

systemHasPriceData(startYear, endYear, minD, maxD, prices) ==
    LET lowestIndex == buildIndexFromYearAndQuarter(startYear, 1)
        lowestValidIndex == max(lowestIndex, minD)
        highestIndex == buildIndexFromYearAndQuarter(endYear, 1)
        highestValidIndex == min(highestIndex, maxD)
    IN  scanPrices(lowestValidIndex, highestValidIndex, minD, prices)

(* The 20 quarter indices of the block that starts at groupYear, in the    *)
(* order of the loops of lines 205-206.                                    *)
blockIndices(groupYear) ==
    [k \in 1..(4 * groupYearsBy) |->
        buildIndexFromYearAndQuarter(groupYear + ((k - 1) \div 4), ((k - 1) % 4) + 1)]

(* One cell, lines 215-219: 0 stands for the &mdash; cell, a positive      *)
(* number for the price printed, -1 for an index outside the series.       *)
renderCell(currentIndex, minD, maxD, prices) ==
    IF (currentIndex < minD) \/ (currentIndex > maxD) THEN 0
    ELSE IF ~inRange(currentIndex - minD, prices) THEN -1
    ELSE IF prices[currentIndex - minD + 1] <= 0 THEN 0
    ELSE prices[currentIndex - minD + 1]

renderRow(key, groupYear, minD, maxD, prices) ==
    [system |-> key,
     has |-> systemHasPriceData(groupYear, groupYear + groupYearsBy - 1, minD, maxD, prices),
     cells |-> [k \in 1..(4 * groupYearsBy) |->
                   renderCell(blockIndices(groupYear)[k], minD, maxD, prices)]]

(* The rows of one block, lines 196-223: the rows of the systems that have *)
(* price data, in the order of keys.                                       *)
RECURSIVE renderRows(_, _, _, _, _)
renderRows(sys, ks, groupYear, minD, maxD) ==
    IF ks = <<>> THEN <<>>
    ELSE LET r == renderRow(Head(ks), groupYear, minD, maxD, sys[Head(ks)])
             rest == renderRows(sys, Tail(ks), groupYear, minD, maxD)
         IN  IF r.has = "false" THEN rest ELSE <<r>> \o rest

RECURSIVE renderBlocks(_, _, _, _, _, _)
renderBlocks(sys, ks, groupYear, maxYear, minD, maxD) ==
    IF groupYear > maxYear THEN <<>>
    ELSE <<[groupYear |-> groupYear,
            rows |-> renderRows(sys, ks, groupYear, minD, maxD)]>>
         \o renderBlocks(sys, ks, groupYear + groupYearsBy, maxYear, minD, maxD)

outputWikidata(sys, ks, minD, maxD) ==
    LET minYear == decodeIndexByQuarter(minD).year
        maxYear == decodeIndexByQuarter(maxD).year
        startYear == GoDiv(minYear, 5) * 5
    IN  renderBlocks(sys, ks, startYear, maxYear, minD, maxD)

rowPanics(r) == (r.has = "panic") \/ (\E k \in DOMAIN r.cells : r.cells[k] = -1)

outputPanics(blocks) ==
    \E b \in DOMAIN blocks : \E r \in DOMAIN blocks[b].rows : rowPanics(blocks[b].rows[r])

-----------------------------------------------------------------------------
(* The whole of parseData, and main from the rows to the rendered tables,  *)
(* as functions of the rows and of the iteration order of the map.         *)

RECURSIVE parseLoop(_, _, _)
parseLoop(st, d, k) ==
    IF (k > Len(d)) \/ (st.panic # "") THEN st
    ELSE parseLoop(parseRow(st, d[k], k), d, k + 1)

parseData(d) == parseLoop(parseInit, d, 1)

mainOutcome(d, order) ==
    LET parsed == parseData(d)
        built == buildBySystem(parsed.adverts, parsed.minDate, parsed.maxDate)
        sys == preprocessSystemData(built.m, order)
        ks == sortStrings(DOMAIN sys)
        blocks == outputWikidata(sys, ks, parsed.minDate, parsed.maxDate)
    IN  IF parsed.panic # "" THEN [panic |-> parsed.panic]
        ELSE IF built.panic THEN [panic |-> "buildBySystem"]
        ELSE IF outputPanics(blocks) THEN [panic |-> "outputWikidata"]
        ELSE [minDate |-> parsed.minDate, maxDate |-> parsed.maxDate,
              systems |-> sys, output |-> blocks]

mainOutcomes(d) ==
    LET parsed == parseData(d)
        built == buildBySystem(parsed.adverts, parsed.minDate, parsed.maxDate)
    IN  IF parsed.panic # "" THEN {[panic |-> parsed.panic]}
        ELSE {mainOutcome(d, order) : order \in IterationOrders(DOMAIN built.m)}

-----------------------------------------------------------------------------
(* Input rows.  A row is the 8 columns of a CSV record, by column offset.  *)

Row(magazine, yyyy_mm, page_num, system, price) ==
    [c \in 0..7 |->
        CASE c = adv_magazine -> magazine
          [] c = adv_yyyy_mm -> yyyy_mm
          [] c = adv_page_num -> page_num
          [] c = adv_system -> system
          [] c = adv_price -> price
          [] OTHER -> <<>>]

(* The texts of the columns.                                               *)
Y1982M03 == <<"1", "9", "8", "2", "-", "0", "3">>
Y1982M02 == <<"1", "9", "8", "2", "-", "0", "2">>
Y1984M08 == <<"1", "9", "8", "4", "-", "0", "8">>
Y1985M01 == <<"1", "9", "8", "5", "-", "0", "1">>
BadSeparator == <<"1", "9", "8", "2", "/", "0", "3">>
BadYear == <<"2", "1", "0", "0", "-", "0", "1">>
BadMonth == <<"1", "9", "8", "2", "-", "1", "3">>
ShortYearMonth == <<"1", "9", "8", "2">>
Page12 == <<"p", "1", "2">>
Page501 == <<"p", "5", "0", "1">>
PageX == <<"x">>
Pounds70 == <<"£", "7", "0">>
Pounds65 == <<"£", "6", "5">>
Pounds0 == <<"£", "0">>
Pounds1234_50 == <<"£", "1", ",", "2", "3", "4", ".", "5", "0">>
PoundsMinus5 == <<"£", "-", "5">>
Pounds100001 == <<"£", "1", "0", "0", "0", "0", "1">>
Dollars50 == <<"$", "5", "0">>

Mag == <<"M", "a", "g">>
ZX81 == <<"Z", "X", "8", "1">>

BadYearMonthTexts ==
    {BadSeparator, BadYear, BadMonth, ShortYearMonth}

BadPriceTexts ==
    {Dollars50, PoundsMinus5, Pounds100001, <<>>}

(* The header row; its other columns hold what a valid advert would.       *)
HeaderRow == Row(Source, Y1982M03, Page12, ZX81, Pounds70)

BlankRow == Row(<<>>, <<>>, <<>>, <<>>, <<>>)

(* Rows that vary the texts of the fields.                                 *)
TextRows ==
    {HeaderRow, BlankRow,
     Row(Mag, Y1982M03, Page12, ZX81, Pounds70),
     Row(Mag, Y1985M01, PageX, MK14, Pounds1234_50),
     Row(Mag, Y1984M08, Page501, ZX81, Pounds0)}
    \cup {Row(Mag, ym, Page12, ZX81, Pounds70) : ym \in BadYearMonthTexts}
    \cup {Row(Mag, Y1982M03, Page12, ZX81, pr) : pr \in BadPriceTexts}

(* Rows that vary the systems, quarters and prices of valid adverts.       *)
SystemRows ==
    {HeaderRow}
    \cup {Row(Mag, Y1982M03, Page12, ZX81, Pounds70),
          Row(Mag, Y1982M02, Page12, ZX81, Pounds0),
          Row(Mag, Y1982M02, Page12, ZX81, Pounds65),
          Row(Mag, Y1984M08, Page12, ZX81, Pounds65),
          Row(Mag, Y1982M03, Page12, ScienceOfCambridgeMK14, Pounds70),
          Row(Mag, Y1985M01, Page12, MK14, Pounds65),
          Row(Mag, Y1982M03, Page12, AppleII, Pounds1234_50),
          Row(Mag, Y1985M01, Page12, ExidySorcerer, Pounds70)}

Inputs(Rows) == UNION {[1..n -> Rows] : n \in 0..MaxRows}

-----------------------------------------------------------------------------
(* main: the state after construction, and one action per step.            *)

InitMain(Rows) ==
    /\ data \in Inputs(Rows)
    /\ pc = "parseData"
    /\ i = 0
    /\ searching_for_header = parseInit.searching_for_header
    /\ adverts = parseInit.adverts
    /\ minDate = parseInit.minDate
    /\ maxDate = parseInit.maxDate
    /\ systems = emptyMap
    /\ keys = <<>>
    /\ output = <<>>
    /\ panicIn = ""
    /\ probe = [kind |-> "none"]
    /\ answer = [kind |-> "none"]

Init == InitMain(TextRows)

InitSystems == InitMain(SystemRows)

Panic(where) ==
    /\ pc' = "panic"
    /\ panicIn' = where

(* One iteration of the loop of parseData, lines 117-172.                  *)
ParseRow ==
    /\ pc = "parseData"
    /\ i < Len(data)
    /\ LET st == parseRow([searching_for_header |-> searching_for_header,
                           adverts |-> adverts, minDate |-> minDate,
                           maxDate |-> maxDate, panic |-> ""],
                          data[i + 1], i + 1)
       IN  IF st.panic # ""
           THEN /\ Panic(st.panic)
                /\ UNCHANGED <<i, searching_for_header, adverts, minDate, maxDate>>
           ELSE /\ i' = i + 1
                /\ searching_for_header' = st.searching_for_header
                /\ adverts' = st.adverts
                /\ minDate' = st.minDate
                /\ maxDate' = st.maxDate
                /\ UNCHANGED <<pc, panicIn>>
    /\ UNCHANGED <<data, systems, keys, output, probe, answer>>

(* parseData returns, line 174.                                            *)
ParseReturn ==
    /\ pc = "parseData"
    /\ i = Len(data)
    /\ pc' = "buildBySystem"
    /\ UNCHANGED <<data, i, searching_for_header, adverts, minDate, maxDate,
                   systems, keys, output, panicIn, probe, answer>>

(* systems := buildBySystem(adverts, minDate, maxDate), line 66.           *)
BuildBySystem ==
    /\ pc = "buildBySystem"
    /\ LET result == buildBySystem(adverts, minDate, maxDate)
       IN  IF result.panic
           THEN Panic("buildBySystem") /\ UNCHANGED systems
           ELSE /\ systems' = result.m
                /\ pc' = "preprocessSystemData"
                /\ UNCHANGED panicIn
    /\ UNCHANGED <<data, i, searching_for_header, adverts, minDate, maxDate,
                   keys, output, probe, answer>>

(* systems = preprocessSystemData(systems), line 68.                       *)
PreprocessSystemData ==
    /\ pc = "preprocessSystemData"
    /\ \E order \in IterationOrders(DOMAIN systems) :
           systems' = preprocessSystemData(systems, order)
    /\ pc' = "sortKeys"
    /\ UNCHANGED <<data, i, searching_for_header, adverts, minDate, maxDate,
                   keys, output, panicIn, probe, answer>>

(* The keys of the map, sorted, lines 71-75.                               *)
SortKeys ==
    /\ pc = "sortKeys"
    /\ keys' = sortStrings(DOMAIN systems)
    /\ pc' = "outputWikidata"
    /\ UNCHANGED <<data, i, searching_for_header, adverts, minDate, maxDate,
                   systems, output, panicIn, probe, answer>>

(* outputWikidata(systems, keys, minDate, maxDate), line 82.               *)
OutputWikidata ==
    /\ pc = "outputWikidata"
    /\ LET blocks == outputWikidata(systems, keys, minDate, maxDate)
       IN  IF outputPanics(blocks)
           THEN Panic("outputWikidata") /\ UNCHANGED output
           ELSE /\ output' = blocks
                /\ pc' = "done"
                /\ UNCHANGED panicIn
    /\ UNCHANGED <<data, i, searching_for_header, adverts, minDate, maxDate,
                   systems, keys, probe, answer>>

Next ==
    \/ ParseRow
    \/ ParseReturn
    \/ BuildBySystem
    \/ PreprocessSystemData
    \/ SortKeys
    \/ OutputWikidata

Spec == Init /\ [][Next]_vars

SpecSystems == InitSystems /\ [][Next]_vars

-----------------------------------------------------------------------------
(* The quarter-index functions on their own: a probe is an argument of one *)
(* of them, answer what the code computes from it.                         *)

Probes ==
    {[kind |-> "index", idx |-> n] : n \in 0..(4 * MaxProbeYear + 3)}
    \cup {[kind |-> "quarter", year |-> y, quarter |-> q] :
              y \in 0..MaxProbeYear, q \in 1..4}
    \cup {[kind |-> "advert", year |-> y, month |-> m] :
              y \in 0..MaxProbeYear, m \in 1..12}

InitIndex ==
    /\ probe \in Probes
    /\ answer = [kind |-> "none"]
    /\ data = <<>>
    /\ pc = "index"
    /\ i = 0
    /\ searching_for_header = parseInit.searching_for_header
    /\ adverts = parseInit.adverts
    /\ minDate = parseInit.minDate
    /\ maxDate = parseInit.maxDate
    /\ systems = emptyMap
    /\ keys = <<>>
    /\ output = <<>>
    /\ panicIn = ""

(* buildIndexFromYearAndQuarter(decodeIndexByQuarter(idx))                 *)
DecodeThenBuild ==
    /\ probe.kind = "index"
    /\ answer.kind = "none"
    /\ LET d == decodeIndexByQuarter(probe.idx)
       IN  answer' = [kind |-> "index", decoded |-> d,
                      idx |-> buildIndexFromYearAndQuarter(d.year, d.quarter)]
    /\ UNCHANGED <<pipeVars, probe>>

(* decodeIndexByQuarter(buildIndexFromYearAndQuarter(year, quarter))       *)
BuildThenDecode ==
    /\ probe.kind = "quarter"
    /\ answer.kind = "none"
    /\ LET n == buildIndexFromYearAndQuarter(probe.year, probe.quarter)
       IN  answer' = [kind |-> "quarter", idx |-> n,
                      decoded |-> decodeIndexByQuarter(n)]
    /\ UNCHANGED <<pipeVars, probe>>

(* buildIndexFromAdvertInfo of an advert of the given year and month       *)
BuildFromAdvert ==
    /\ probe.kind = "advert"
    /\ answer.kind = "none"
    /\ answer' = [kind |-> "advert",
                  idx |-> buildIndexFromAdvertInfo([year |-> probe.year,
                                                    month |-> probe.month])]
    /\ UNCHANGED <<pipeVars, probe>>

NextIndex ==
    \/ DecodeThenBuild
    \/ BuildThenDecode
    \/ BuildFromAdvert

SpecIndex == InitIndex /\ [][NextIndex]_vars

-----------------------------------------------------------------------------
-----------------------------------------------------------------------------
(* What the claims are stated in.                                          *)

AdvertSet == {adverts[k] : k \in DOMAIN adverts}

(* The quarter index of a record, as the data model defines it.            *)
QuarterIndexOf(a) == (a.year * 4) + ((a.month - 1) \div 3)

SetMin(S) == CHOOSE x \in S : \A y \in S : x <= y

SetMax(S) == CHOOSE x \in S : \A y \in S : x >= y

PositivePrices(s, idx) ==
    {a.price : a \in {x \in AdvertSet : /\ x.system = s
                                        /\ QuarterIndexOf(x) = idx
                                        /\ x.price > 0}}

(* The number of the first row with "Source" in its first column, 0 when   *)
(* no row has.                                                             *)
HeaderAt(d) ==
    LET found == {k \in DOMAIN d : d[k][adv_magazine] = Source}
    IN  IF found = {} THEN 0 ELSE SetMin(found)

parseDataReturned == pc \notin {"index", "parseData", "panic"}

ObservedOutcome ==
    IF pc = "panic" THEN [panic |-> panicIn]
    ELSE [minDate |-> minDate, maxDate |-> maxDate,
          systems |-> systems, output |-> output]

RowsOf(block) == {block.rows[r] : r \in DOMAIN block.rows}

-----------------------------------------------------------------------------
(* C1: after buildBySystem, for every system and every quarter position,   *)
(* the stored value is the minimum of the strictly positive prices of that *)
(* system's records in that quarter, and 0 when it has none; so the result *)
(* does not depend on the order of the records.                            *)
C1_MinimumPositivePrice ==
    (pc = "preprocessSystemData") =>
        /\ DOMAIN systems = {a.system : a \in AdvertSet}
        /\ \A s \in DOMAIN systems : \A idx \in minDate..maxDate :
               systems[s][idx - minDate + 1] =
                   IF PositivePrices(s, idx) = {} THEN 0
                   ELSE SetMin(PositivePrices(s, idx))

(* C2: in every five-year block emitted, a system's row is emitted if and  *)
(* only if one of the block's 20 quarter indices within [minDate, maxDate] *)
(* has a stored price > 0; so every system with a positive stored price    *)
(* has a row in some block.                                                *)
C2_RowIffPriceInBlock ==
    (pc = "done") =>
        /\ \A b \in DOMAIN output : \A k \in DOMAIN systems :
               (\E r \in RowsOf(output[b]) : r.system = k)
               <=> (\E idx \in (4 * output[b].groupYear)..(4 * output[b].groupYear + 19) :
                        /\ idx \in minDate..maxDate
                        /\ systems[k][idx - minDate + 1] > 0)
        /\ \A k \in DOMAIN systems :
               (\E pos \in DOMAIN systems[k] : systems[k][pos] > 0)
               => (\E b \in DOMAIN output : \E r \in RowsOf(output[b]) : r.system = k)

(* C3: a malformed or out-of-range year-month or price text of any length, *)
(* the empty text and texts shorter than 5 characters included, is an      *)
(* error of its row only: the run never aborts, the row gives no record,   *)
(* and parseData returns after it has processed every row.                 *)
C3_MalformedFieldIsRowLevelError ==
    /\ pc # "panic"
    /\ parseDataReturned => (i = Len(data))
    /\ \A a \in AdvertSet :
           /\ handle_yyyy_mm(data[a.row][adv_yyyy_mm]).err = "nil"
           /\ handle_price(data[a.row][adv_price]).err = "nil"

(* C4: every advert record has its year in [1945, 2099], its month in      *)
(* [1, 12] and its price in [0, 100000].                                   *)
C4_RecordFieldsInRange ==
    \A a \in AdvertSet :
        /\ a.year \in min_year..max_year
        /\ a.month \in 1..12
        /\ a.price \in 0..max_price

(* C5: the pipeline is deterministic: whatever order the system map is     *)
(* iterated in, the rows of the input give the one outcome observed.       *)
C5_Deterministic ==
    (pc = "done") => (mainOutcomes(data) = {ObservedOutcome})

(* C6: preprocessSystemData applies exactly the rule table: its result has *)
(* no key "Apple II", "Exidy Sorcerer" or "Science of Cambridge MK14"; the *)
(* series of "Science of Cambridge MK14" is the series under "MK14"; every *)
(* other system keeps its key and its series; and no key is added.         *)
C6_RuleTable ==
    [][(pc = "preprocessSystemData" /\ pc' = "sortKeys") =>
        LET dropped == {AppleII, ExidySorcerer, ScienceOfCambridgeMK14}
            kept == (DOMAIN systems) \ dropped
        IN  /\ (DOMAIN systems') \cap dropped = {}
            /\ (ScienceOfCambridgeMK14 \in DOMAIN systems) =>
                   /\ MK14 \in DOMAIN systems'
                   /\ systems'[MK14] = systems[ScienceOfCambridgeMK14]
            /\ \A s \in kept : (s \in DOMAIN systems') /\ (systems'[s] = systems[s])
            /\ (DOMAIN systems') \subseteq
                   (kept \cup (IF ScienceOfCambridgeMK14 \in DOMAIN systems
                               THEN {MK14} ELSE {}))]_vars

(* C8: no row at or before the first row with "Source" in its first column *)
(* produces a record or contributes to minDate or maxDate, whatever its    *)
(* other columns hold; without such a row there is no record; and the      *)
(* records are in the order of their rows.                                 *)
C8_HeaderRowsProduceNothing ==
    LET header == HeaderAt(data)
    IN  /\ (header = 0) => (adverts = <<>>)
        /\ \A k \in DOMAIN adverts :
               /\ adverts[k].row \in (header + 1)..i
               /\ adverts[k].system = data[adverts[k].row][adv_system]
               /\ adverts[k].magazine = data[adverts[k].row][adv_magazine]
        /\ \A j, k \in DOMAIN adverts : (j < k) => (adverts[j].row < adverts[k].row)
        /\ minDate = SetMin({QuarterIndexOf(a) : a \in AdvertSet} \cup {(max_year + 1) * 4})
        /\ maxDate = SetMax({QuarterIndexOf(a) : a \in AdvertSet} \cup {-1})

C8_Witness ==
    /\ pc = "done"
    /\ Len(data) = 3
    /\ HeaderAt(data) = 2
    /\ data[1] = Row(Mag, Y1982M03, Page12, ZX81, Pounds70)
    /\ Len(adverts) = 1
    /\ adverts[1].row = 3

(* Page texts, and the rows d with the page text of row r replaced by p.   *)
PageTexts == {Page12, Page501, PageX, <<>>}

dataWithPage(d, r, p) == [d EXCEPT ![r] = [d[r] EXCEPT ![adv_page_num] = p]]

(* C9: a row whose year-month and price parse is kept as a record even     *)
(* when its page text does not parse, and the page texts have no influence *)
(* on the result: with the page text of any row replaced, the input has    *)
(* the same possible outcomes (minDate, maxDate, the system-to-series      *)
(* mapping and the rendered tables, or the same abort), the outcome        *)
(* observed among them.                                                    *)
C9_PageHasNoInfluence ==
    /\ parseDataReturned =>
           \A k \in (HeaderAt(data) + 1)..Len(data) :
               (/\ HeaderAt(data) > 0
                /\ Len(data[k][adv_system]) > 0
                /\ handle_yyyy_mm(data[k][adv_yyyy_mm]).err = "nil"
                /\ handle_price(data[k][adv_price]).err = "nil")
               => (\E a \in AdvertSet :
                       /\ a.row = k
                       /\ a.page = handle_page_number(data[k][adv_page_num]).page)
    /\ (pc \in {"done", "panic"}) =>
           \A r \in DOMAIN data : \A p \in PageTexts :
               /\ mainOutcomes(dataWithPage(data, r, p)) = mainOutcomes(data)
               /\ ObservedOutcome \in mainOutcomes(dataWithPage(data, r, p))

C9_Witness ==
    /\ pc = "done"
    /\ \E a \in AdvertSet :
           /\ handle_page_number(data[a.row][adv_page_num]).err # "nil"
           /\ a.page = -1000
           /\ \E b \in DOMAIN output : \E r \in RowsOf(output[b]) : r.system = a.system

(* C10: the minDate and maxDate that parseData returns are the minimum and *)
(* the maximum quarter index of the records; every series has length       *)
(* maxDate - minDate + 1; every position that buildBySystem,               *)
(* systemHasPriceData and outputWikidata use lies in the series, so none   *)
(* of them aborts; and with no valid record minDate > maxDate, no series   *)
(* is allocated and no block is emitted.                                   *)
C10_DateRangeAndPositions ==
    /\ parseDataReturned =>
           IF adverts = <<>>
           THEN /\ minDate > maxDate
                /\ systems = emptyMap
                /\ output = <<>>
           ELSE /\ minDate = SetMin({QuarterIndexOf(a) : a \in AdvertSet})
                /\ maxDate = SetMax({QuarterIndexOf(a) : a \in AdvertSet})
    /\ \A s \in DOMAIN systems : Len(systems[s]) = maxDate - minDate + 1
    /\ (pc = "panic") => (panicIn \in {"handle_yyyy_mm", "handle_price"})
    /\ \A b \in DOMAIN output : \A r \in RowsOf(output[b]) :
           /\ r.has = "true"
           /\ \A k \in DOMAIN r.cells : r.cells[k] >= 0

C10_Witness ==
    /\ pc = "done"
    /\ Len(output) = 2
    /\ \A b \in DOMAIN output : output[b].rows # <<>>
    /\ maxDate - minDate + 1 = 13

====
